---- MODULE Spec2Model ----
(***************************************************************************)
(* Model of the Or tool of whitebox_tools                                  *)
(* (src/whitebox_tools/src/tools/math_stat_analysis/or.rs, Or::run):       *)
(* the shape check, the scheduler loop that spawns one thread per row      *)
(* block, the worker closures that send one (row, data) message per row    *)
(* over an mpsc channel, the collector loop that writes the received rows  *)
(* into the output raster, and the final write of the output.              *)
(*                                                                         *)
(* f64 samples are modelled by the integers that stand for them (0.0, 1.0, *)
(* 5.0, -9999.0 are exact in f64); NaN samples are not modelled.           *)
(***************************************************************************)
EXTENDS Integers, Sequences, FiniteSets, TLC

\* ---------------------------------------------------------------- bounds
MaxRows == 5
MaxCols == 2
MaxProcs == 3
SpawnSlack == 2

\* The scheduler loop never ends when row_block_size is 0: every iteration
\* computes the same block [0, 0) and only id grows.  The model records the
\* first MaxSpawn iterations; the later ones repeat the same block and leave
\* every other variable as it is, so the model shows them as stuttering in
\* pc = "sched".  A run with row_block_size >= 1 spawns at most rows threads
\* and never gets to MaxSpawn.
MaxSpawn == MaxRows + SpawnSlack

\* ---------------------------------------------------------------- inputs
\* Sample values a raster cell can hold, and the nodata sentinels.
Palette == <<0, 5, -9999, 0>>
Nodatas == {-9999, 5}
Seeds == 0 .. (Len(Palette) - 1)

\* A loaded raster: configs.rows, configs.columns, configs.nodata and the
\* samples, addressed as data[row][col] for in[(row, col)].
MakeRaster(rs, cs, nd, seed) ==
    [rows |-> rs, columns |-> cs, nodata |-> nd,
     data |-> [row \in 0 .. (rs - 1) |->
                 [col \in 0 .. (cs - 1) |->
                    Palette[((seed + row + col) % Len(Palette)) + 1]]]]

Rasters ==
    {MakeRaster(rs, cs, nd, seed) :
        rs \in 0 .. MaxRows, cs \in 1 .. MaxCols, nd \in Nodatas, seed \in Seeds}

VARIABLES
    in1, in2,          \* the two input rasters (Arc<Raster>, read-only)
    num_procs,         \* num_cpus::get()
    pc,                \* position of the main thread in run
    result,            \* what run returns: "none" while running
    starting_row, ending_row, row_block_size, id,   \* scheduler locals
    threads,           \* spawned worker closures, in spawn order
    chan,              \* messages sent on tx and not yet received on rx
    output_exists,     \* Raster::initialize_using_file has been called
    output,            \* rows of the output raster
    r,                 \* index of the collector loop
    writeLog,          \* history: the row indices passed to set_row_data
    persisted          \* output.write() returned Ok

vars == <<in1, in2, num_procs, pc, result, starting_row, ending_row,
          row_block_size, id, threads, chan, output_exists, output, r,
          writeLog, persisted>>

inputs == <<in1, in2, num_procs>>
schedVars == <<starting_row, ending_row, row_block_size, id>>

\* let rows = ...; let columns = ...; let nodata1 = ...; let nodata2 = ...
rows == in1.rows
columns == in1.columns
nodata1 == in1.nodata
nodata2 == in2.nodata

Init ==
    /\ in1 \in Rasters
    /\ in2 \in Rasters
    /\ num_procs \in 1 .. MaxProcs
    /\ pc = "check"
    /\ result = "none"
    /\ starting_row = 0
    /\ ending_row = 0
    /\ row_block_size = 0
    /\ id = 0
    /\ threads = <<>>
    /\ chan = <<>>
    /\ output_exists = FALSE
    /\ output = <<>>
    /\ r = 0
    /\ writeLog = <<>>
    /\ persisted = FALSE

\* ---------------------------------------------------------- shape check
ShapeMismatch_RowsOnly(a, b) == a.rows # b.rows

\* in1.configs.rows != in2.configs.rows || in1.configs.columns != in2.configs.columns
ShapeMismatch(a, b) == a.rows # b.rows \/ a.columns # b.columns

\* return Err(Error::new(ErrorKind::InvalidInput, ...))
CheckShapeFail ==
    /\ pc = "check"
    /\ ShapeMismatch(in1, in2)
    /\ pc' = "failed"
    /\ result' = "InvalidInput"
    /\ UNCHANGED <<inputs, schedVars, threads, chan, output_exists, output,
                   r, writeLog, persisted>>

\* the check passes: ending_row = 0, row_block_size = rows / num_procs, id = 0
CheckShapeOk ==
    /\ pc = "check"
    /\ ~ShapeMismatch(in1, in2)
    /\ pc' = "sched"
    /\ ending_row' = 0
    /\ row_block_size' = rows \div num_procs
    /\ id' = 0
    /\ UNCHANGED <<inputs, result, starting_row, threads, chan,
                   output_exists, output, r, writeLog, persisted>>

\* ------------------------------------------------------------ scheduler
LoopCond_Inclusive(e, rs) == e <= rs

\* while ending_row < rows
LoopCond(e, rs) == e < rs

starting_row_one_based(i, bs) == (i + 1) * bs

\* A block that starts on the last row of the block before it.
starting_row_overlapping(i, bs) == IF i * bs > 0 THEN i * bs - 1 ELSE 0

\* starting_row = id * row_block_size
starting_row_of(i, bs) == i * bs

ending_row_inclusive(start, bs, rs) ==
    IF start + bs + 1 > rs THEN rs ELSE start + bs + 1

ending_row_unclamped(start, bs, rs) == start + bs

\* The last full block takes the left-over rows with it.
ending_row_absorbing(start, bs, rs) ==
    IF start + 2 * bs > rs THEN rs ELSE start + bs

\* ending_row = starting_row + row_block_size; if ending_row > rows { ending_row = rows }
ending_row_of(start, bs, rs) ==
    IF start + bs > rs THEN rs ELSE start + bs

\* One iteration of the scheduler loop: compute the block, spawn its thread.
\* `row` is the next row the closure's `for row in starting_row..ending_row`
\* will handle.
Spawn ==
    /\ pc = "sched"
    /\ LoopCond(ending_row, rows)
    /\ id < MaxSpawn
    /\ LET s == starting_row_of(id, row_block_size)
           e == ending_row_of(s, row_block_size, rows)
       IN /\ starting_row' = s
          /\ ending_row' = e
          /\ threads' = Append(threads,
                          [starting_row |-> s, ending_row |-> e, row |-> s])
    /\ id' = id + 1
    /\ UNCHANGED <<inputs, pc, result, row_block_size, chan, output_exists,
                   output, r, writeLog, persisted>>

\* Raster::initialize_using_file(&output_file, &in1): an output raster with
\* the shape of in1 and no row populated yet.
initialize_using_file(template) == [row \in 0 .. (template.rows - 1) |-> <<>>]

\* The scheduler loop exits; the output raster is created.
BeginCollect ==
    /\ pc = "sched"
    /\ ~LoopCond(ending_row, rows)
    /\ pc' = "collect"
    /\ output_exists' = TRUE
    /\ output' = initialize_using_file(in1)
    /\ r' = 0
    /\ UNCHANGED <<inputs, result, schedVars, threads, chan, writeLog,
                   persisted>>

\* --------------------------------------------------------------- worker
UpdateCell_EitherValid(data, col, z1, z2, nd1, nd2) ==
    IF z1 # nd1 \/ z2 # nd2
    THEN [data EXCEPT ![col + 1] = IF z1 # 0 \/ z2 # 0 THEN 1 ELSE 0]
    ELSE data

UpdateCell_And(data, col, z1, z2, nd1, nd2) ==
    IF z1 # nd1 /\ z2 # nd2
    THEN [data EXCEPT ![col + 1] = IF z1 # 0 /\ z2 # 0 THEN 1 ELSE 0]
    ELSE data

\* if z1 != nodata1 && z2 != nodata2 {
\*     if z1 != 0f64 || z2 != 0f64 { data[col] = 1f64 } else { data[col] = 0f64 }
\* }
UpdateCell(data, col, z1, z2, nd1, nd2) ==
    IF z1 # nd1 /\ z2 # nd2
    THEN [data EXCEPT ![col + 1] = IF z1 # 0 \/ z2 # 0 THEN 1 ELSE 0]
    ELSE data

\* for col in 0..columns { z1 = in1[(row, col)]; z2 = in2[(row, col)]; ... }
RECURSIVE ColumnLoop(_, _, _)
ColumnLoop(data, row, col) ==
    IF col >= columns
    THEN data
    ELSE ColumnLoop(UpdateCell(data, col, in1.data[row][col],
                               in2.data[row][col], nodata1, nodata2),
                    row, col + 1)

\* let mut data = vec![nodata1; columns]; followed by the column loop
RowData(row) == ColumnLoop([col \in 1 .. columns |-> nodata1], row, 0)

\* The row loop run from the last row of the block down to the first.
Worker_Reversed(w) ==
    /\ w <= Len(threads)
    /\ threads[w].row < threads[w].ending_row
    /\ LET row == threads[w].ending_row - 1
                    - (threads[w].row - threads[w].starting_row)
       IN chan' = Append(chan, [row |-> row, data |-> RowData(row)])
    /\ threads' = [threads EXCEPT ![w].row = @ + 1]
    /\ UNCHANGED <<inputs, pc, result, schedVars, output_exists, output, r,
                   writeLog, persisted>>

\* The closure keeps the rows it has computed and sends them all after the
\* last row of its block.
Worker_Buffered(w) ==
    /\ w <= Len(threads)
    /\ threads[w].row < threads[w].ending_row
    /\ chan' = IF threads[w].row + 1 = threads[w].ending_row
               THEN chan \o [k \in 1 .. (threads[w].ending_row - threads[w].starting_row) |->
                               [row |-> threads[w].starting_row + k - 1,
                                data |-> RowData(threads[w].starting_row + k - 1)]]
               ELSE chan
    /\ threads' = [threads EXCEPT ![w].row = @ + 1]
    /\ UNCHANGED <<inputs, pc, result, schedVars, output_exists, output, r,
                   writeLog, persisted>>

\* One iteration of a worker's row loop: compute the row, tx.send((row, data)).
Worker(w) ==
    /\ w <= Len(threads)
    /\ threads[w].row < threads[w].ending_row
    /\ chan' = Append(chan, [row |-> threads[w].row,
                             data |-> RowData(threads[w].row)])
    /\ threads' = [threads EXCEPT ![w].row = @ + 1]
    /\ UNCHANGED <<inputs, pc, result, schedVars, output_exists, output, r,
                   writeLog, persisted>>

\* ------------------------------------------------------------ collector
\* output.set_row_data(row, data)
set_row_data(out, row, data) == [out EXCEPT ![row] = data]

Collect_AtLoopIndex ==
    /\ pc = "collect"
    /\ r < rows
    /\ chan # <<>>
    /\ output' = set_row_data(output, r, Head(chan).data)
    /\ writeLog' = Append(writeLog, r)
    /\ chan' = Tail(chan)
    /\ r' = r + 1
    /\ UNCHANGED <<inputs, pc, result, schedVars, threads, output_exists,
                   persisted>>

\* One iteration of `for r in 0..rows`: rx.recv() blocks until a message is
\* there, then the row is written at the index the message carries.
Collect ==
    /\ pc = "collect"
    /\ r < rows
    /\ chan # <<>>
    /\ output' = set_row_data(output, Head(chan).row, Head(chan).data)
    /\ writeLog' = Append(writeLog, Head(chan).row)
    /\ chan' = Tail(chan)
    /\ r' = r + 1
    /\ UNCHANGED <<inputs, pc, result, schedVars, threads, output_exists,
                   persisted>>

\* The collector loop run as `for r in 0..rows - 1`.
Finish_OneShort ==
    /\ pc = "collect"
    /\ r >= rows - 1
    /\ pc' = "write"
    /\ UNCHANGED <<inputs, result, schedVars, threads, chan, output_exists,
                   output, r, writeLog, persisted>>

\* The collector loop exits; the metadata of the output is set.
Finish ==
    /\ pc = "collect"
    /\ r >= rows
    /\ pc' = "write"
    /\ UNCHANGED <<inputs, result, schedVars, threads, chan, output_exists,
                   output, r, writeLog, persisted>>

\* output.write() returns Ok(_); run returns Ok(())
WriteOk ==
    /\ pc = "write"
    /\ pc' = "done"
    /\ result' = "Ok"
    /\ persisted' = TRUE
    /\ UNCHANGED <<inputs, schedVars, threads, chan, output_exists, output,
                   r, writeLog>>

\* output.write() returns Err(e); run returns Err(e)
WriteErr ==
    /\ pc = "write"
    /\ pc' = "failed"
    /\ result' = "IOError"
    /\ UNCHANGED <<inputs, schedVars, threads, chan, output_exists, output,
                   r, writeLog, persisted>>

\* -------------------------------------------------------- specification
MainStep ==
    \/ CheckShapeFail
    \/ CheckShapeOk
    \/ Spawn
    \/ BeginCollect
    \/ Collect
    \/ Finish
    \/ WriteOk
    \/ WriteErr

Next ==
    \/ CheckShapeFail
    \/ CheckShapeOk
    \/ Spawn
    \/ BeginCollect
    \/ \E w \in 1 .. MaxSpawn : Worker(w)
    \/ Collect
    \/ Finish
    \/ WriteOk
    \/ WriteErr

Spec == Init /\ [][Next]_vars

\* The operating system keeps scheduling the main thread and every spawned
\* thread that can take a step.
FairSpec ==
    /\ Spec
    /\ WF_vars(MainStep)
    /\ \A w \in 1 .. MaxSpawn : WF_vars(Worker(w))

\* ------------------------------------------------------------ properties
ShapesMatch == in1.rows = in2.rows /\ in1.columns = in2.columns

\* The collector loop has run to its end.
CollectorDone ==
    \/ pc \in {"write", "done"}
    \/ pc = "failed" /\ result = "IOError"

\* Number of times `row` was passed to set_row_data.
TimesWritten(row) == Cardinality({i \in 1 .. Len(writeLog) : writeLog[i] = row})

\* The spawned threads whose block [starting_row, ending_row) holds `row`.
BlocksHolding(row) ==
    {w \in 1 .. Len(threads) :
        threads[w].starting_row <= row /\ row < threads[w].ending_row}

\* The cell-wise rule, stated on the input samples.
ExpectedCell(row, col) ==
    IF in1.data[row][col] = nodata1 \/ in2.data[row][col] = nodata2
    THEN nodata1
    ELSE IF in1.data[row][col] # 0 \/ in2.data[row][col] # 0 THEN 1 ELSE 0

ExpectedOutput ==
    [row \in 0 .. (rows - 1) |-> [c \in 1 .. columns |-> ExpectedCell(row, c - 1)]]

\* C1: once the collector loop has completed, every row index in [0, rows)
\* has been passed to set_row_data exactly once.
C1_EveryRowWrittenOnce ==
    CollectorDone => \A row \in 0 .. (rows - 1) : TimesWritten(row) = 1

C1_Witness ==
    /\ CollectorDone
    /\ rows = MaxRows
    /\ Len(threads) >= 3
    /\ \E i \in 1 .. (Len(writeLog) - 1) : writeLog[i] > writeLog[i + 1]

\* C2: for every rows >= 0 and num_workers >= 1 the scheduler loop hands out
\* blocks that partition [0, rows): once the shape check has passed, the loop
\* reaches its end with every row of [0, rows) in exactly one block.
C2_BlocksPartition ==
    (pc = "sched") ~>
        (/\ pc # "sched"
         /\ \A row \in 0 .. (rows - 1) : Cardinality(BlocksHolding(row)) = 1
         /\ \A w \in 1 .. Len(threads) :
                /\ 0 <= threads[w].starting_row
                /\ threads[w].starting_row <= threads[w].ending_row
                /\ threads[w].ending_row <= rows)

\* C3: block generation terminates for every rows and num_workers: every
\* iteration of the scheduler loop moves ending_row strictly closer to rows,
\* and the block it hands to the spawned worker is not a zero-length block.
C3_BlockGenerationTerminates ==
    [][(pc = "sched" /\ pc' = "sched" /\ id' # id) =>
          /\ ending_row' > ending_row
          /\ starting_row' < ending_row']_vars

\* C4: under fair scheduling the collector receives exactly `rows` RowResults
\* and then finishes its loop, for every rows >= 0 and num_workers >= 1.
C4_CollectorTerminates ==
    (pc = "sched") ~> (CollectorDone /\ r = rows /\ Len(writeLog) = rows)

\* C5: for fixed input grids the engine yields the same Output, the cell-wise
\* rule applied to the inputs, whatever num_workers is and in whatever order
\* the RowResults arrive.
C5_Deterministic ==
    (pc = "sched") ~> (CollectorDone /\ output = ExpectedOutput)

\* C6: in the completed output, a cell where GridA is nodata1 or GridB is
\* nodata2 holds nodata1.
C6_NodataPropagates ==
    CollectorDone =>
        \A row \in 0 .. (rows - 1) : \A col \in 0 .. (columns - 1) :
            (in1.data[row][col] = nodata1 \/ in2.data[row][col] = nodata2)
                => (Len(output[row]) = columns /\ output[row][col + 1] = nodata1)

C6_Witness ==
    /\ CollectorDone
    /\ nodata1 # nodata2
    /\ \E row \in 0 .. (rows - 1) : \E col \in 0 .. (columns - 1) :
          /\ in1.data[row][col] # nodata1
          /\ in2.data[row][col] = nodata2
          /\ output[row][col + 1] = nodata1

\* C7: in the completed output, a cell where neither input is nodata holds 1
\* if GridA or GridB is non-zero there, and 0 otherwise.
C7_LogicalOr ==
    CollectorDone =>
        \A row \in 0 .. (rows - 1) : \A col \in 0 .. (columns - 1) :
            (in1.data[row][col] # nodata1 /\ in2.data[row][col] # nodata2)
                => /\ Len(output[row]) = columns
                   /\ output[row][col + 1] \in {0, 1}
                   /\ output[row][col + 1] = 1
                        <=> (in1.data[row][col] # 0 \/ in2.data[row][col] # 0)

C7_Witness ==
    /\ CollectorDone
    /\ \E row \in 0 .. (rows - 1) : \E col \in 0 .. (columns - 1) :
          /\ in1.data[row][col] \notin {nodata1, 0}
          /\ in2.data[row][col] = 0
          /\ nodata2 # 0
          /\ output[row][col + 1] = 1
    /\ \E row \in 0 .. (rows - 1) : \E col \in 0 .. (columns - 1) :
          /\ in1.data[row][col] = 0
          /\ in2.data[row][col] = 0
          /\ output[row][col + 1] = 0

\* C8: when the shapes of the two inputs differ, run fails with InvalidInput
\* straight from the shape check: no worker is spawned, no output raster is
\* created, no row is written and nothing is persisted.
C8_ShapeMismatchFails ==
    ~ShapesMatch =>
        /\ pc \in {"check", "failed"}
        /\ pc = "failed" => result = "InvalidInput"
        /\ result \in {"none", "InvalidInput"}
        /\ threads = <<>>
        /\ chan = <<>>
        /\ ~output_exists
        /\ writeLog = <<>>
        /\ ~persisted

C8_Witness ==
    /\ in1.rows = 3 /\ in2.rows = 3
    /\ in1.columns # in2.columns
    /\ pc = "failed"
    /\ result = "InvalidInput"

\* C9: when rows = 0 no block is produced and no worker is spawned, the
\* collector receives nothing, and the engine goes on to the end of the
\* collector loop with a zero-row output.
C9_ZeroRows ==
    /\ [](ShapesMatch /\ rows = 0 =>
            /\ threads = <<>>
            /\ id = 0
            /\ chan = <<>>
            /\ r = 0
            /\ writeLog = <<>>
            /\ output = <<>>)
    /\ (pc = "sched" /\ rows = 0) ~> (CollectorDone /\ output_exists)

C9_Witness ==
    /\ rows = 0
    /\ num_procs > 1
    /\ pc = "done"
    /\ output_exists
    /\ threads = <<>>

\* C10 as stated: the sequence of row indices passed to set_row_data is
\* strictly ascending.
C10_StrictRowOrder ==
    \A i \in 1 .. (Len(writeLog) - 1) : writeLog[i] < writeLog[i + 1]

\* C10 as amended: each received row is written at the index it carries, in
\* arrival order; the row indices passed to set_row_data are strictly
\* ascending among the rows of one worker's block, and every row written so
\* far holds the data computed for that row.
C10_AscendingWithinBlock ==
    /\ \A i \in 1 .. Len(writeLog) : \A j \in (i + 1) .. Len(writeLog) :
          BlocksHolding(writeLog[i]) \cap BlocksHolding(writeLog[j]) # {}
              => writeLog[i] < writeLog[j]
    /\ \A i \in 1 .. Len(writeLog) :
          /\ writeLog[i] \in 0 .. (rows - 1)
          /\ output[writeLog[i]] = ExpectedOutput[writeLog[i]]

C10_Witness ==
    /\ CollectorDone
    /\ \E i \in 1 .. (Len(writeLog) - 1) : writeLog[i] > writeLog[i + 1]
    /\ \E w \in 1 .. Len(threads) : threads[w].ending_row - threads[w].starting_row >= 2

\* Number of blocks the scheduler loop hands out when it runs to its end with
\* block size bs >= 1: num_procs full blocks, then the blocks that cover the
\* rs % np rows integer division leaves over.
BlocksNeeded(rs, np, bs) == np + (((rs % np) + bs - 1) \div bs)

\* C11 as stated: for rows >= 1 the number of threads spawned equals
\* num_workers, and the scheduler never spawns more than num_workers.  It is
\* stated here for the inputs with rows >= num_workers, on which the
\* scheduler loop ends.
C11_SpawnsNumWorkers ==
    (ShapesMatch /\ rows >= num_procs) =>
        /\ Len(threads) <= num_procs
        /\ pc \notin {"check", "sched"} => Len(threads) = num_procs

\* C11 as amended: thread number w (counting from 0) gets the block that
\* starts at w * row_block_size, and when the scheduler loop has ended for
\* rows >= 1 it has spawned num_procs threads plus the threads for the
\* rows % num_procs left-over rows: num_procs exactly when num_procs divides
\* rows, more than num_procs otherwise.
C11_SpawnCount ==
    /\ Len(threads) = id
    /\ \A w \in 1 .. Len(threads) :
          threads[w].starting_row = (w - 1) * row_block_size
    /\ (ShapesMatch /\ rows >= 1 /\ pc \notin {"check", "sched"}) =>
          /\ row_block_size >= 1
          /\ Len(threads) = BlocksNeeded(rows, num_procs, row_block_size)
          /\ Len(threads) >= num_procs
          /\ Len(threads) = num_procs <=> rows % num_procs = 0

C11_Witness ==
    /\ pc = "collect"
    /\ rows = 5
    /\ num_procs = 2
    /\ Len(threads) = 3

\* The column indices `for col in 0..columns` visits, from col on.
RECURSIVE ColumnsVisited(_)
ColumnsVisited(col) ==
    IF col >= columns THEN {} ELSE {col} \cup ColumnsVisited(col + 1)

\* The cells in1[(row, col)] and in2[(row, col)] thread w reads over its life:
\* every row of `for row in starting_row..ending_row`, every visited column.
CellsRead(w) ==
    {<<row, col>> : row \in threads[w].starting_row .. (threads[w].ending_row - 1),
                    col \in ColumnsVisited(0)}

InRange(raster, cell) ==
    /\ 0 <= cell[1] /\ cell[1] < raster.rows
    /\ 0 <= cell[2] /\ cell[2] < raster.columns

\* C12: every cell a worker reads, of either input, is inside the raster, and
\* every RowResult sent carries a row index in [0, rows) and exactly
\* `columns` values.
C12_NoOutOfRange ==
    /\ \A w \in 1 .. Len(threads) :
          /\ threads[w].starting_row <= threads[w].row
          /\ threads[w].row <= threads[w].ending_row
          /\ \A cell \in CellsRead(w) : InRange(in1, cell) /\ InRange(in2, cell)
    /\ \A i \in 1 .. Len(chan) :
          /\ 0 <= chan[i].row /\ chan[i].row < rows
          /\ Len(chan[i].data) = columns
    /\ \A i \in 1 .. Len(writeLog) :
          /\ 0 <= writeLog[i] /\ writeLog[i] < rows
          /\ Len(output[writeLog[i]]) = columns

C12_Witness ==
    /\ rows = 5
    /\ num_procs = 2
    /\ columns = 2
    /\ Len(threads) = 3
    /\ \E i \in 1 .. Len(chan) : chan[i].row = rows - 1
    /\ \E i \in 1 .. Len(writeLog) : writeLog[i] = 0

\* A step of a worker thread: a message is added to the channel, or a
\* spawned thread moves on in its block.
WorkerStepTaken ==
    \/ Len(chan') > Len(chan)
    \/ Len(threads') = Len(threads) /\ threads' # threads

\* C13: the input grids never change; no worker step changes the output; and
\* the existing output changes only in a collector step that takes the
\* message at the head of the channel and changes exactly the row its
\* row_index names, to the data it carries.
C13_SingleWriter ==
    [][/\ in1' = in1
       /\ in2' = in2
       /\ WorkerStepTaken => (output' = output /\ writeLog' = writeLog)
       /\ (output_exists /\ (output' # output \/ writeLog' # writeLog)) =>
             /\ pc = "collect" /\ pc' = "collect"
             /\ chan # <<>>
             /\ chan' = Tail(chan)
             /\ threads' = threads
             /\ writeLog' = Append(writeLog, Head(chan).row)
             /\ DOMAIN output' = DOMAIN output
             /\ output'[Head(chan).row] = Head(chan).data
             /\ \A row \in DOMAIN output \ {Head(chan).row} :
                   output'[row] = output[row]]_vars

C13_Witness ==
    /\ pc = "collect"
    /\ Len(threads) >= 2
    /\ chan # <<>>
    /\ \E w \in 1 .. Len(threads) : threads[w].row < threads[w].ending_row
    /\ \E row \in 0 .. (rows - 1) : output[row] # <<>> /\ row # writeLog[1]
    /\ \E row \in 0 .. (rows - 1) : output[row] = <<>>
    /\ writeLog[1] # 0

\* The row indices of the messages sent so far, in the order they entered
\* the channel: those already received, then those still in the channel.
SentRows == writeLog \o [i \in 1 .. Len(chan) |-> chan[i].row]

\* The row indices received so far from thread w, in order of receipt.
ReceivedFrom(w) ==
    SelectSeq(writeLog, LAMBDA row : threads[w].starting_row <= row
                                     /\ row < threads[w].ending_row)

\* C14: a worker emits the rows of its block in ascending order, so the rows
\* it has emitted so far are starting_row, starting_row + 1, ... up to the
\* row it is at, and the collector receives the rows of one block in that
\* same ascending order.
C14_AscendingPerWorker ==
    /\ \A i \in 1 .. Len(SentRows) : \A j \in (i + 1) .. Len(SentRows) :
          (\E w \in 1 .. Len(threads) :
              /\ threads[w].starting_row <= SentRows[i]
              /\ SentRows[i] < threads[w].ending_row
              /\ threads[w].starting_row <= SentRows[j]
              /\ SentRows[j] < threads[w].ending_row)
          => SentRows[i] < SentRows[j]
    /\ \A w \in 1 .. Len(threads) :
          /\ {SentRows[i] : i \in 1 .. Len(SentRows)}
                \cap (threads[w].starting_row .. (threads[w].ending_row - 1))
             = threads[w].starting_row .. (threads[w].row - 1)
          /\ \A k \in 1 .. Len(ReceivedFrom(w)) :
                ReceivedFrom(w)[k] = threads[w].starting_row + k - 1

\* Rows of different workers received in both relative orders: a higher row
\* before a lower one, and a lower row before a higher one, while one block
\* has had two of its rows received.
C14_Witness ==
    /\ \E i \in 1 .. Len(writeLog) : \E j \in (i + 1) .. Len(writeLog) :
          /\ writeLog[i] > writeLog[j]
          /\ BlocksHolding(writeLog[i]) # BlocksHolding(writeLog[j])
    /\ \E i \in 1 .. Len(writeLog) : \E j \in (i + 1) .. Len(writeLog) :
          /\ writeLog[i] < writeLog[j]
          /\ BlocksHolding(writeLog[i]) # BlocksHolding(writeLog[j])
    /\ \E w \in 1 .. Len(threads) : Len(ReceivedFrom(w)) >= 2

BlockLen(w) == threads[w].ending_row - threads[w].starting_row

\* C15: when rows >= num_workers, so that block_size >= 1, every block handed
\* out is non-empty and has at most block_size rows, every block before the
\* last has exactly block_size rows, and when the scheduler loop has ended
\* the last block ends at rows.
C15_BlockSizes ==
    (ShapesMatch /\ rows >= num_procs /\ pc # "check") =>
        /\ rows >= 1 => row_block_size >= 1
        /\ \A w \in 1 .. Len(threads) :
              /\ 1 <= BlockLen(w)
              /\ BlockLen(w) <= row_block_size
              /\ w < Len(threads) => BlockLen(w) = row_block_size
        /\ (pc # "sched" /\ rows >= 1) =>
              /\ Len(threads) >= 1
              /\ threads[Len(threads)].ending_row = rows

C15_Witness ==
    /\ pc = "collect"
    /\ rows = 5
    /\ num_procs = 2
    /\ Len(threads) = 3
    /\ BlockLen(1) = 2
    /\ BlockLen(3) = 1

\* C16: each row index is sent at most once and by the one worker whose block
\* holds it; rows received <= rows sent <= rows; and when the collector loop
\* has finished, the channel is empty and no worker has a row left to send.
C16_MessageAccounting ==
    /\ \A i \in 1 .. Len(SentRows) : \A j \in 1 .. Len(SentRows) :
          SentRows[i] = SentRows[j] => i = j
    /\ \A i \in 1 .. Len(SentRows) :
          /\ Cardinality(BlocksHolding(SentRows[i])) = 1
          /\ \A w \in BlocksHolding(SentRows[i]) : SentRows[i] < threads[w].row
    /\ Len(writeLog) = r
    /\ Len(writeLog) <= Len(SentRows)
    /\ Len(SentRows) <= rows
    /\ CollectorDone =>
          /\ chan = <<>>
          /\ Len(SentRows) = rows
          /\ \A w \in 1 .. Len(threads) : threads[w].row = threads[w].ending_row

C16_Witness ==
    /\ CollectorDone
    /\ rows = MaxRows
    /\ Len(threads) >= 3
    /\ writeLog[1] # 0

\* output.write() is about to be called, or has been called.
WriteReached ==
    \/ pc \in {"write", "done"}
    \/ result \in {"Ok", "IOError"}
    \/ persisted

\* C17: output.write() is reached only after the collector has received and
\* written all `rows` rows: no state in which write has been reached has an
\* unwritten row in [0, rows).
C17_WriteOnlyWhenPopulated ==
    WriteReached =>
        /\ output_exists
        /\ r = rows
        /\ \A row \in 0 .. (rows - 1) :
              /\ output[row] # <<>>
              /\ \E i \in 1 .. Len(writeLog) : writeLog[i] = row

C17_Witness ==
    /\ persisted
    /\ result = "Ok"
    /\ rows >= 2
    /\ Len(threads) >= 2

\* The messages sent so far that carry a row of thread w's block.
SentFrom(w) ==
    SelectSeq(SentRows, LAMBDA row : threads[w].starting_row <= row
                                     /\ row < threads[w].ending_row)

\* C18: a worker sends each row as soon as it has computed it: at every
\* moment the rows a worker has gone through are all sent, none is held
\* back until the block is finished.  (The witness is the state the claim
\* says is reachable.)
C18_RowAtATime ==
    \A w \in 1 .. Len(threads) :
        Len(SentFrom(w)) = threads[w].row - threads[w].starting_row

\* The collector has written a row of a block whose worker still has rows
\* of that block left to compute and send.
C18_Witness ==
    \E w \in 1 .. Len(threads) :
        /\ threads[w].row < threads[w].ending_row
        /\ \E i \in 1 .. Len(writeLog) :
              /\ threads[w].starting_row <= writeLog[i]
              /\ writeLog[i] < threads[w].ending_row
              /\ output[writeLog[i]] = ExpectedOutput[writeLog[i]]

====
